---- MODULE Spec2Model ----
(***************************************************************************)
(* Model of go-image-unpacker (src/imageunpacker.go).                      *)
(*                                                                         *)
(* The program reads a raw file (uint16 width, uint16 height, then float32 *)
(* r,g,b triples, all little-endian), gamma-corrects and quantizes the     *)
(* samples and writes an RGBA image as PNG.                                *)
(*                                                                         *)
(* Three specifications live here:                                         *)
(*   Spec      main(): flags, getBytes, length check, Unpack stage by      *)
(*             stage, saveImage.                                           *)
(*   SpecRead  the Read loop of getBytes, one Read call per step.          *)
(*   SpecImage the nested loop of makeImage, one pixel per step.           *)
(*                                                                         *)
(* Byte slices can be hundreds of megabytes long (8192 x 8192 pixels), so  *)
(* Spec holds a slice as a record [len, pre, pat]: `pre` is the explicit   *)
(* beginning and `pat` a block that repeats after it up to length `len`.   *)
(* A slice with pat = << >> is an ordinary explicit sequence.  Go's int is *)
(* taken to be 64 bits wide, so 12*width*height never wraps for uint16     *)
(* width and height.                                                       *)
(***************************************************************************)
EXTENDS Integers, Sequences, FiniteSets, TLC

\* ------------------------------------------------------------------------
\* Program constants (src/imageunpacker.go:31-36)
\* ------------------------------------------------------------------------
MaxImageDimension == 8192

headerSize == 4

floatSize == 4

elementSize == 12

bufferSize == 1024

\* nil, and a variable not yet assigned
None == [k |-> "none"]

\* ------------------------------------------------------------------------
\* Slices held as prefix + repeating block
\* ------------------------------------------------------------------------
Min(a, b) == IF a < b THEN a ELSE b

Max(a, b) == IF a > b THEN a ELSE b

EmptySlice == [len |-> 0, pre |-> << >>, pat |-> << >>]

\* s[i-1] of Go (i is 1-based here)
At(s, i) ==
  IF i <= Len(s.pre) THEN s.pre[i]
  ELSE s.pat[((i - Len(s.pre) - 1) % Len(s.pat)) + 1]

\* the slice of length n whose i-th element is f(i); f repeats with period Q
\* after its first P elements.  Short slices are kept explicit.
FromFn(n, P, Q, f(_)) ==
  IF n <= P + Q
  THEN [len |-> n, pre |-> [i \in 1..n |-> f(i)], pat |-> << >>]
  ELSE [len |-> n, pre |-> [i \in 1..P |-> f(i)],
        pat |-> [i \in 1..Q |-> f(P + i)]]

\* s[k:]
SliceFrom(s, k) ==
  FromFn(s.len - k, Max(Len(s.pre) - k, 0), Len(s.pat),
         LAMBDA i : At(s, i + k))

\* s[:n]
SliceTo(s, n) ==
  FromFn(n, Min(Len(s.pre), n), Len(s.pat), LAMBDA i : At(s, i))

\* ------------------------------------------------------------------------
\* Bit operations on non-negative integers
\* ------------------------------------------------------------------------
RECURSIVE Pow2(_)
Pow2(k) == IF k = 0 THEN 1 ELSE 2 * Pow2(k - 1)

\* x << k
Shl(x, k) == x * Pow2(k)

\* x | y
RECURSIVE BitOr(_, _)
BitOr(x, y) ==
  IF x = 0 THEN y
  ELSE IF y = 0 THEN x
  ELSE Max(x % 2, y % 2) + 2 * BitOr(x \div 2, y \div 2)

\* ------------------------------------------------------------------------
\* getDimensions (src/imageunpacker.go:118-126)
\* ------------------------------------------------------------------------
\* the loop `for i := lo; i < hi; i++ { acc |= int(bytes[i]) << uint(8*(i-lo)) }`
RECURSIVE OrBytes(_, _, _, _, _)
OrBytes(bytes, lo, i, hi, acc) ==
  IF i >= hi THEN acc
  ELSE OrBytes(bytes, lo, i + 1, hi,
               BitOr(acc, Shl(At(bytes, i + 1), 8 * (i - lo))))

\* faulty variant: the header read big-endian
getDimensionsBE(bytes) ==
  [width  |-> 256 * At(bytes, 1) + At(bytes, 2),
   height |-> 256 * At(bytes, 3) + At(bytes, 4)]

getDimensions(bytes) ==
  [width  |-> OrBytes(bytes, 0, 0, headerSize \div 2, 0),
   height |-> OrBytes(bytes, headerSize \div 2, headerSize \div 2, headerSize, 0)]

\* expectedSize := int(elementSize*width*height) + headerSize   (line 78)
expectedSize(width, height) == elementSize * width * height + headerSize

\* ------------------------------------------------------------------------
\* Floating-point values
\*
\* A float64 is held exactly, as one of
\*   [k |-> "num",  n, d]          the rational n/d (d > 0, lowest terms in 2)
\*   [k |-> "sqrt", cn, cd, n, d]  (cn/cd) * sqrt(n/d), n/d > 0 no perfect square
\*   [k |-> "inf",  s]             +Inf (s = 1) or -Inf (s = -1)
\*   [k |-> "nan"]
\* which is exact for the samples used here (few mantissa bits, small
\* exponents); see Samples.
\* ------------------------------------------------------------------------
Num(n, d) == [k |-> "num", n |-> n, d |-> d]

NaN == [k |-> "nan"]

Inf(s) == [k |-> "inf", s |-> s]

\* n/d with the common factors of two removed
RECURSIVE Reduce(_, _)
Reduce(n, d) ==
  IF n = 0 THEN Num(0, 1)
  ELSE IF n % 2 = 0 /\ d % 2 = 0 THEN Reduce(n \div 2, d \div 2)
  ELSE Num(n, d)

\* largest r in lo..hi with r*r <= x (hi*hi must not exceed the integer range)
RECURSIVE ISqrtIter(_, _, _)
ISqrtIter(x, lo, hi) ==
  IF lo >= hi THEN lo
  ELSE LET mid == (lo + hi + 1) \div 2
       IN IF mid * mid <= x THEN ISqrtIter(x, mid, hi)
          ELSE ISqrtIter(x, lo, mid - 1)

ISqrt(x) == ISqrtIter(x, 0, 46340)

IsSquare(x) == ISqrt(x) * ISqrt(x) = x

\* ------------------------------------------------------------------------
\* uint32From and convertToFloat (src/imageunpacker.go:128-147)
\* ------------------------------------------------------------------------
\* bytes[a:b] as an explicit slice
Sub(bytes, a, b) == FromFn(b - a, b - a, 0, LAMBDA j : At(bytes, a + j))

\* log.Fatalln("Expected 4 bytes, got ...") of uint32From: the process exits
\* with status 1 and no value comes back
Uint32Fatal == [k |-> "fatal"]

\* The uint32 is kept as its two 16-bit halves [hi, lo] (x = hi * 2^16 + lo):
\* x |= uint32(bytes[i]) << uint(8*i) for i = 0..3, unless len(bytes) != 4.
uint32From(bytes) ==
  IF bytes.len # 4 THEN Uint32Fatal
  ELSE [lo |-> OrBytes(bytes, 0, 0, 2, 0),
        hi |-> OrBytes(bytes, 2, 2, 4, 0)]

\* float64(math.Float32frombits(ui)): sign bit, 8 exponent bits, 23 mantissa bits
Float32frombits(ui) ==
  LET sign == IF ui.hi \div 32768 = 1 THEN -1 ELSE 1
      e    == (ui.hi % 32768) \div 128
      m    == (ui.hi % 128) * 65536 + ui.lo
  IN  IF e = 255 THEN (IF m = 0 THEN Inf(sign) ELSE NaN)
      ELSE IF e = 0 THEN (IF m = 0 THEN Num(0, 1) ELSE Reduce(sign * m, Pow2(149)))
      ELSE IF e >= 150 THEN Num(sign * (8388608 + m) * Pow2(e - 150), 1)
      ELSE Reduce(sign * (8388608 + m), Pow2(150 - e))

convertToFloat(bytes) ==
  LET N == bytes.len \div floatSize
      L == Len(bytes.pat)
  IN  FromFn(N, (Len(bytes.pre) + floatSize - 1) \div floatSize,
             IF L % floatSize = 0 THEN L \div floatSize ELSE L,
             LAMBDA i :
               LET ui == uint32From(Sub(bytes, floatSize * (i - 1), floatSize * i))
               IN  IF ui = Uint32Fatal THEN Uint32Fatal ELSE Float32frombits(ui))

\* uint32From ended the process during convertToFloat
convertFatal(f) ==
  \/ \E i \in 1..Len(f.pre) : f.pre[i] = Uint32Fatal
  \/ \E i \in 1..Len(f.pat) : f.pat[i] = Uint32Fatal

\* `for i := 0; i < len(f); i++ { out[i] = F(f[i]) }`
MapSlice(F(_), s) ==
  [len |-> s.len,
   pre |-> [i \in 1..Len(s.pre) |-> F(s.pre[i])],
   pat |-> [i \in 1..Len(s.pat) |-> F(s.pat[i])]]

\* ------------------------------------------------------------------------
\* gammaCorrect (src/imageunpacker.go:149-155)
\* ------------------------------------------------------------------------
\* gamma is a positive rational [n, d]
IsOne(g) == g.n = g.d

\* ig := 1.0 / g
Recip(g) == [n |-> g.d, d |-> g.n]

\* math.Sqrt
Sqrt(x) ==
  IF x.k = "nan" THEN NaN
  ELSE IF x.k = "inf" THEN (IF x.s = 1 THEN Inf(1) ELSE NaN)
  ELSE IF x.n < 0 THEN NaN
  ELSE IF x.n = 0 THEN x
  ELSE IF IsSquare(x.n) /\ IsSquare(x.d) THEN Num(ISqrt(x.n), ISqrt(x.d))
  ELSE [k |-> "sqrt", cn |-> 1, cd |-> 1, n |-> x.n, d |-> x.d]

\* math.Pow(x, y) for the exponents y = 1, 1/2 and the positive integers;
\* any other exponent is left as an unevaluated power.
\* (-Inf)^y is +Inf for y = 1/2 and for even y, -Inf for odd y.
RECURSIVE IntPow(_, _)
IntPow(b, e) == IF e = 0 THEN 1 ELSE b * IntPow(b, e - 1)

Pow(x, y) ==
  IF x = Num(1, 1) THEN x
  ELSE IF y.n = y.d THEN x
  ELSE IF x.k = "nan" THEN NaN
  ELSE IF x.k = "num" /\ x.n = 0 THEN Num(0, 1)
  ELSE IF x.k = "inf"
       THEN (IF x.s = -1 /\ y.d = 1 /\ y.n % 2 = 1 THEN Inf(-1) ELSE Inf(1))
  ELSE IF y.n = 1 /\ y.d = 2 THEN Sqrt(x)
  ELSE IF y.d = 1 THEN Num(IntPow(x.n, y.n), IntPow(x.d, y.n))
  ELSE [k |-> "pow", base |-> x, exp |-> y]

\* faulty variant: the exponent g in place of 1/g
gammaCorrectNoInverse(f, g) == MapSlice(LAMBDA x : Pow(x, g), f)

gammaCorrect(f, g) ==
  LET ig == Recip(g)
  IN  MapSlice(LAMBDA x : Pow(x, ig), f)

\* ------------------------------------------------------------------------
\* standardDynamicRange (src/imageunpacker.go:157-163)
\* ------------------------------------------------------------------------
\* the constant 255.99
Scale == [n |-> 25599, d |-> 100]

\* f * c for a positive rational c
FMul(f, c) ==
  IF f.k = "num" THEN Num(f.n * c.n, f.d * c.d)
  ELSE IF f.k = "sqrt" THEN [f EXCEPT !.cn = f.cn * c.n, !.cd = f.cd * c.d]
  ELSE f

\* floor of a finite value v >= 0
Floor(v) ==
  IF v.k = "num" THEN v.n \div v.d
  ELSE ISqrt(v.cn * v.cn * v.n * v.d) \div (v.cd * v.d)

\* v > a and v < a for an integer a >= 0 (a "sqrt" value is positive and
\* irrational)
Greater(v, a) ==
  IF v.k = "nan" THEN FALSE
  ELSE IF v.k = "inf" THEN v.s = 1
  ELSE IF v.k = "num" THEN v.n > a * v.d
  ELSE Floor(v) >= a

Less(v, a) ==
  IF v.k = "nan" THEN FALSE
  ELSE IF v.k = "inf" THEN v.s = -1
  ELSE IF v.k = "num" THEN v.n < a * v.d
  ELSE Floor(v) < a

\* math.Min(a, v) and math.Max(a, v): NaN if v is NaN
FMin(a, v) == IF v.k = "nan" THEN NaN ELSE IF Greater(v, a) THEN Num(a, 1) ELSE v

FMax(a, v) == IF v.k = "nan" THEN NaN ELSE IF Less(v, a) THEN Num(a, 1) ELSE v

\* byte(v) for v in [0, 255] truncates; byte(NaN) is implementation-defined
\* (Go spec, Conversions) and is the build's value nanByte.
ToByte(v, nanByte) == IF v.k = "nan" THEN nanByte ELSE Floor(v) % 256

\* bytes[i] = byte(math.Max(0, math.Min(255, f[i]*255.99)))
\* faulty variant: no clamp at 0
quantizeNoFloor(x, nanByte) == ToByte(FMin(255, FMul(x, Scale)), nanByte)

quantize(x, nanByte) == ToByte(FMax(0, FMin(255, FMul(x, Scale))), nanByte)

standardDynamicRange(f, nanByte) == MapSlice(LAMBDA x : quantize(x, nanByte), f)

\* ------------------------------------------------------------------------
\* makeImage (src/imageunpacker.go:165-175), as one value
\* ------------------------------------------------------------------------
\* color.RGBAModel.Convert(color.NRGBA{r, g, b, a}) as image.RGBA.Set applies
\* it: premultiply the 16-bit channels by alpha, keep the high byte.
NRGBAtoRGBA(r, g, b, a) ==
  << (((r * 257) * a) \div 255) \div 256,
     (((g * 257) * a) \div 255) \div 256,
     (((b * 257) * a) \div 255) \div 256,
     (a * 257) \div 256 >>

\* image.NewRGBA(image.Rect(0, 0, w, h)) with every pixel (x, y) set from
\* bytes[i], bytes[i+1], bytes[i+2], i = 3*(y*w + x); Pix is the image's byte
\* array (4 bytes per pixel, row after row), held as a slice.
makeImage(bytes, w, h) ==
  LET L == Len(bytes.pat)
  IN  [w |-> w, h |-> h, Stride |-> 4 * w,
       Pix |-> FromFn(4 * w * h, 4 * ((Len(bytes.pre) + 2) \div 3),
                      IF L % 3 = 0 THEN 4 * (L \div 3) ELSE 4 * L,
                      LAMBDA j :
                        LET p == (j - 1) \div 4
                            c == (j - 1) % 4
                        IN  NRGBAtoRGBA(At(bytes, 3 * p + 1), At(bytes, 3 * p + 2),
                                        At(bytes, 3 * p + 3), 255)[c + 1])]

\* ------------------------------------------------------------------------
\* Inputs of the model
\* ------------------------------------------------------------------------
\* low and high byte of each header field: 0, 1, 2, 8192, 8193, 8194
HeaderLow == {0, 1, 2}

HeaderHigh == {0, 32}

Headers ==
  { <<wl, wh, hl, hh>> : wl \in HeaderLow, wh \in HeaderHigh,
                         hl \in HeaderLow, hh \in HeaderHigh }

\* little-endian float32 encodings of 0.0, 0.25, 0.5, 1.0, 2.0 and -0.5
SampleBytes ==
  { <<0, 0, 0, 0>>, <<0, 0, 128, 62>>, <<0, 0, 0, 63>>, <<0, 0, 128, 63>>,
    <<0, 0, 0, 64>>, <<0, 0, 0, 191>> }

\* one pixel of payload; the payload repeats it
Pixels == { r \o g \o b : r \in SampleBytes, g \in SampleBytes, b \in SampleBytes }

HeaderWidth(hdr) == hdr[1] + 256 * hdr[2]

HeaderHeight(hdr) == hdr[3] + 256 * hdr[4]

\* file lengths tried for a header: too short for a header, header only, and
\* around the length the header declares
FileLens(hdr) ==
  LET e == 12 * HeaderWidth(hdr) * HeaderHeight(hdr) + 4
  IN  {0, 3, 4, 16, e, e + 12} \cup (IF e > 4 THEN {e - 1} ELSE {})

MkFile(hdr, pixel, n) ==
  FromFn(n, 4, 12, LAMBDA i : IF i <= 4 THEN hdr[i] ELSE pixel[((i - 5) % 12) + 1])

Files == UNION { { MkFile(hdr, px, n) : n \in FileLens(hdr), px \in Pixels } :
                 hdr \in Headers }

\* -gamma values: 0.5, 1.0 and 2.0 (the default)
Gammas == { [n |-> 1, d |-> 2], [n |-> 1, d |-> 1], [n |-> 2, d |-> 1] }

\* byte(NaN) of the build: 0 where the conversion instruction yields the
\* minimum integer or zero, 255 where it yields the maximum integer
NaNBytes == {0, 255}

\* lengths at which a short Read may end getBytes early
ShortLens == {3, 16}

\* ------------------------------------------------------------------------
\* Errors (the messages main logs before exiting)
\* ------------------------------------------------------------------------
ErrNone == "nil"

ErrUsage == "usage"

\* flag.Parse rejects the command line (a value that is no float, an unknown
\* flag, a flag without its value)
ErrFlag == "flag: invalid command line"

\* -h or -help
ErrHelp == "flag: help requested"

ErrIO == "I/O error"

ErrTooSmall == "File is too small"

ErrCorrupt == "File is corrupted, image size header incorrect"

ErrTooLarge == "File is too large"

ErrEncode == "png: invalid format: invalid image size"

ErrExpected4 == "Expected 4 bytes"

VARIABLES
  pc,        \* where main is
  file,      \* contents of the input file
  gamma,     \* -gamma flag
  bytes,     \* result of getBytes
  dims,      \* width, height of Unpack
  floats,    \* floats of Unpack
  imgData,   \* imgData of Unpack
  im,        \* image returned by Unpack
  out,       \* the output file: Absent, Created (empty), Partial or Written(image)
  err,       \* the error main died of
  exitCode,  \* exit status; -1 while running
  rd,        \* state of the Read loop (SpecRead)
  mi         \* state of the makeImage loop (SpecImage)

vars == <<pc, file, gamma, bytes, dims, floats, imgData, im, out, err, exitCode, rd, mi>>

mainVars == <<pc, file, gamma, bytes, dims, floats, imgData, im, out, err, exitCode>>

Idle == [pc |-> "idle"]

Absent == [state |-> "absent"]

Created == [state |-> "created"]

Partial == [state |-> "partial"]

Written(m) == [state |-> "written", image |-> m]

Init ==
  /\ pc = "main"
  /\ file \in Files
  /\ gamma = None
  /\ bytes = None
  /\ dims = None
  /\ floats = None
  /\ imgData = None
  /\ im = None
  /\ out = Absent
  /\ err = ErrNone
  /\ exitCode = -1
  /\ rd = Idle
  /\ mi = Idle

\* main is not running (SpecRead, SpecImage)
MainIdle ==
  /\ pc = "idle"
  /\ file = None
  /\ gamma = None
  /\ bytes = None
  /\ dims = None
  /\ floats = None
  /\ imgData = None
  /\ im = None
  /\ out = Absent
  /\ err = ErrNone
  /\ exitCode = -1

\* os.Exit(code) after e was reported
Exit(e, code) ==
  /\ pc' = "exit"
  /\ err' = e
  /\ exitCode' = code

\* log.Fatal(e) / flag.Usage(); os.Exit(1)
Fatal(e) == Exit(e, 1)

\* what the command line is: well-formed with both paths and a .png output,
\* well-formed but without -i or -o or with another output extension,
\* rejected by flag.Parse, or a request for help
CommandLines == {"ok", "usage", "invalid", "help"}

\* exit status of flag.Parse (flag.CommandLine exits on error) on -h: 0 since
\* Go 1.15, 2 before
HelpExitCodes == {0, 2}

\* main, lines 39-54: flag.Parse at line 45 prints the error and the usage and
\* exits with status 2 on a command line it rejects, prints the usage and
\* exits on -h; then come main's own usage checks, which exit with status 1
ParseFlags ==
  /\ pc = "main"
  /\ \E cl \in CommandLines :
       CASE cl = "invalid" ->
              /\ Exit(ErrFlag, 2)
              /\ UNCHANGED gamma
         [] cl = "help" ->
              /\ \E code \in HelpExitCodes : Exit(ErrHelp, code)
              /\ UNCHANGED gamma
         [] cl = "usage" ->
              /\ \E g \in Gammas : gamma' = g
              /\ Fatal(ErrUsage)
         [] cl = "ok" ->
              /\ \E g \in Gammas : gamma' = g
              /\ pc' = "getBytes"
              /\ UNCHANGED <<err, exitCode>>
  /\ UNCHANGED <<file, bytes, dims, floats, imgData, im, out, rd, mi>>

\* getBytes as main sees it (lines 95-116): nil and an error when Open or a
\* Read fails; otherwise the bytes appended until a Read returned fewer than
\* bufferSize bytes: the whole file, or its beginning when a Read came back
\* short before the end of the file.
getBytes(f) ==
  { [bytes |-> None, err |-> ErrIO], [bytes |-> f, err |-> ErrNone] } \cup
  { [bytes |-> SliceTo(f, n), err |-> ErrNone] :
      n \in { m \in ShortLens : m < f.len /\ m % bufferSize # 0 } }

\* main, lines 56-59
GetBytes ==
  /\ pc = "getBytes"
  /\ \E r \in getBytes(file) :
       IF r.err # ErrNone
       THEN /\ Fatal(r.err)
            /\ UNCHANGED bytes
       ELSE /\ bytes' = r.bytes
            /\ pc' = "checkLen"
            /\ UNCHANGED <<err, exitCode>>
  /\ UNCHANGED <<file, gamma, dims, floats, imgData, im, out, rd, mi>>

\* main, lines 60-62
\* faulty variant: a 3-byte buffer let through
tooSmallOffByOne(b) == b.len < headerSize - 1

tooSmall(b) == b.len < headerSize

CheckLen ==
  /\ pc = "checkLen"
  /\ IF tooSmall(bytes)
     THEN Fatal(ErrTooSmall)
     ELSE /\ pc' = "Unpack"
          /\ UNCHANGED <<err, exitCode>>
  /\ UNCHANGED <<file, gamma, bytes, dims, floats, imgData, im, out, rd, mi>>

\* Unpack, lines 77-84, and main's lines 65-67 when it returns an error
\* faulty variant: the dimension check ahead of the length check
validateSizeFirstLarge(b, d) ==
  IF d.width > MaxImageDimension \/ d.height > MaxImageDimension THEN ErrTooLarge
  ELSE IF b.len # expectedSize(d.width, d.height) THEN ErrCorrupt
  ELSE ErrNone

\* faulty variant: no length check
validateNoSizeCheck(b, d) ==
  IF d.width > MaxImageDimension \/ d.height > MaxImageDimension THEN ErrTooLarge
  ELSE ErrNone

validate(b, d) ==
  IF b.len # expectedSize(d.width, d.height) THEN ErrCorrupt
  ELSE IF d.width > MaxImageDimension \/ d.height > MaxImageDimension THEN ErrTooLarge
  ELSE ErrNone

UnpackValidate ==
  /\ pc = "Unpack"
  /\ LET d == getDimensions(bytes)
         e == validate(bytes, d)
     IN  /\ dims' = d
         /\ IF e # ErrNone
            THEN Fatal(e)
            ELSE /\ pc' = "convertToFloat"
                 /\ UNCHANGED <<err, exitCode>>
  /\ UNCHANGED <<file, gamma, bytes, floats, imgData, im, out, rd, mi>>

\* Unpack, line 86
UnpackConvert ==
  /\ pc = "convertToFloat"
  /\ LET f == convertToFloat(SliceFrom(bytes, headerSize))
     IN  IF convertFatal(f)
         THEN /\ Fatal(ErrExpected4)
              /\ UNCHANGED floats
         ELSE /\ floats' = f
              /\ pc' = "gammaCorrect"
              /\ UNCHANGED <<err, exitCode>>
  /\ UNCHANGED <<file, gamma, bytes, dims, imgData, im, out, rd, mi>>

\* Unpack, lines 87-89
applyGamma(f, g) == IF ~IsOne(g) THEN gammaCorrect(f, g) ELSE f

UnpackGamma ==
  /\ pc = "gammaCorrect"
  /\ floats' = applyGamma(floats, gamma)
  /\ pc' = "standardDynamicRange"
  /\ UNCHANGED <<file, gamma, bytes, dims, imgData, im, out, err, exitCode, rd, mi>>

\* Unpack, line 91
UnpackQuantize ==
  /\ pc = "standardDynamicRange"
  /\ \E nb \in NaNBytes : imgData' = standardDynamicRange(floats, nb)
  /\ pc' = "makeImage"
  /\ UNCHANGED <<file, gamma, bytes, dims, floats, im, out, err, exitCode, rd, mi>>

\* Unpack, line 92
UnpackMakeImage ==
  /\ pc = "makeImage"
  /\ im' = makeImage(imgData, dims.width, dims.height)
  /\ pc' = "saveImage"
  /\ UNCHANGED <<file, gamma, bytes, dims, floats, imgData, out, err, exitCode, rd, mi>>

\* saveImage, lines 178-182: os.Create makes (or truncates) the file
SaveCreate ==
  /\ pc = "saveImage"
  /\ \E ok \in BOOLEAN :
       IF ok
       THEN /\ out' = Created
            /\ pc' = "encode"
            /\ UNCHANGED <<err, exitCode>>
       ELSE /\ Fatal(ErrIO)
            /\ UNCHANGED out
  /\ UNCHANGED <<file, gamma, bytes, dims, floats, imgData, im, rd, mi>>

\* png.Encode refuses an image whose width or height is not positive
pngSizeOk(m) == m.w > 0 /\ m.h > 0

\* saveImage, lines 183-184, and main's lines 70-72: png.Encode fails before
\* writing anything on an image of no pixels, may fail on a write, or writes
\* the whole image
SaveEncode ==
  /\ pc = "encode"
  /\ IF ~pngSizeOk(im)
     THEN /\ Fatal(ErrEncode)
          /\ UNCHANGED out
     ELSE \/ /\ out' = Partial
             /\ Fatal(ErrIO)
          \/ /\ out' = Written(im)
             /\ pc' = "exit"
             /\ exitCode' = 0
             /\ UNCHANGED err
  /\ UNCHANGED <<file, gamma, bytes, dims, floats, imgData, im, rd, mi>>

Next ==
  \/ ParseFlags
  \/ GetBytes
  \/ CheckLen
  \/ UnpackValidate
  \/ UnpackConvert
  \/ UnpackGamma
  \/ UnpackQuantize
  \/ UnpackMakeImage
  \/ SaveCreate
  \/ SaveEncode

Spec == Init /\ [][Next]_vars

\* ------------------------------------------------------------------------
\* SpecRead: the loop of getBytes (src/imageunpacker.go:95-116), one call of
\* os.Open or reader.Read per step, on explicit files
\* ------------------------------------------------------------------------
\* file lengths around the chunk size
ReadLens == {0, 1, 3, 4, 1023, 1024, 1025, 2047, 2048, 2049}

ReadSeeds == {0, 131}

ReadContent(n, seed) == [i \in 1..n |-> (seed + 7 * i) % 256]

\* numbers of bytes one Read may deliver when r > 0 bytes remain: anything
\* from 1 to min(len(buffer), r) (io.Reader); a regular file delivers the
\* most it can
ReadSizes(r) ==
  { n \in {1, 512, bufferSize - 1, bufferSize, r} : n >= 1 /\ n <= Min(bufferSize, r) }

InitRead ==
  /\ MainIdle
  /\ mi = Idle
  /\ \E n \in ReadLens, seed \in ReadSeeds :
       rd = [pc |-> "open", content |-> ReadContent(n, seed), pos |-> 0,
             bytes |-> << >>, buffer |-> << >>, result |-> None, err |-> ErrNone]

\* lines 96-103
ReadOpen ==
  /\ rd.pc = "open"
  /\ \E ok \in BOOLEAN :
       IF ok
       THEN rd' = [rd EXCEPT !.pc = "loop", !.bytes = << >>,
                             !.buffer = [i \in 1..bufferSize |-> 0]]
       ELSE rd' = [rd EXCEPT !.pc = "returned", !.err = ErrIO]
  /\ UNCHANGED <<mainVars, mi>>

\* `if n < bufferSize { break }`
loopEnds(n) == n < bufferSize

\* one turn of the loop, lines 105-112, with a Read that delivers n bytes
ReadTurn(n) ==
  LET buf == [i \in 1..bufferSize |->
                IF i <= n THEN rd.content[rd.pos + i] ELSE rd.buffer[i]]
      acc == rd.bytes \o SubSeq(buf, 1, n)
  IN  rd' = [rd EXCEPT !.buffer = buf, !.bytes = acc, !.pos = rd.pos + n,
                       !.pc = IF loopEnds(n) THEN "returned" ELSE "loop",
                       !.result = IF loopEnds(n) THEN acc ELSE None]

\* Read delivers bytes, or 0 and io.EOF at the end of the file
ReadOk ==
  /\ rd.pc = "loop"
  /\ LET r == Len(rd.content) - rd.pos
     IN  IF r = 0 THEN ReadTurn(0) ELSE \E n \in ReadSizes(r) : ReadTurn(n)
  /\ UNCHANGED <<mainVars, mi>>

\* Read fails with an error other than EOF: getBytes returns nil and the error
ReadFail ==
  /\ rd.pc = "loop"
  /\ rd' = [rd EXCEPT !.pc = "returned", !.err = ErrIO]
  /\ UNCHANGED <<mainVars, mi>>

NextRead ==
  \/ ReadOpen
  \/ ReadOk
  \/ ReadFail

SpecRead == InitRead /\ [][NextRead]_vars

\* ------------------------------------------------------------------------
\* SpecImage: the loop of makeImage (src/imageunpacker.go:165-175), one
\* iteration per step, on explicit pixel buffers of length 3*w*h
\* ------------------------------------------------------------------------
MaxSide == 3

ImageSeeds == {0, 100, 250}

ImageBytes(n, seed) == [i \in 1..n |-> (seed + 5 * i) % 256]

\* (*image.RGBA).PixOffset with Rect.Min = (0, 0)
PixOffset(x, y, stride) == y * stride + x * 4

\* color.NRGBA{bytes[i], bytes[i+1], bytes[i+2], 255}   (i counts from 0)
\* faulty variant: the channels in the order B, G, R
pixelColorBGR(b, i) == << b[i + 3], b[i + 2], b[i + 1], 255 >>

pixelColor(b, i) == << b[i + 1], b[i + 2], b[i + 3], 255 >>

InitImage ==
  /\ MainIdle
  /\ rd = Idle
  /\ \E w \in 0..MaxSide, h \in 0..MaxSide, seed \in ImageSeeds :
       mi = [pc |-> "loop", w |-> w, h |-> h, bytes |-> ImageBytes(3 * w * h, seed),
             x |-> 0, y |-> 0, i |-> 0,
             Stride |-> 4 * w, Pix |-> [j \in 1..(4 * w * h) |-> 0],
             sets |-> [j \in 1..(w * h) |-> 0], maxRead |-> -1]

\* line 170-171: im.Set(x, y, color.NRGBA{...}); i += 3
MakeImageSet ==
  /\ mi.pc = "loop"
  /\ mi.y < mi.h
  /\ mi.x < mi.w
  /\ LET c   == pixelColor(mi.bytes, mi.i)
         c1  == NRGBAtoRGBA(c[1], c[2], c[3], c[4])
         off == PixOffset(mi.x, mi.y, mi.Stride)
     IN  mi' = [mi EXCEPT
                  !.Pix = [j \in DOMAIN mi.Pix |->
                             IF j > off /\ j <= off + 4 THEN c1[j - off] ELSE mi.Pix[j]],
                  !.sets = [j \in DOMAIN mi.sets |->
                              IF j = (off \div 4) + 1 THEN mi.sets[j] + 1 ELSE mi.sets[j]],
                  !.maxRead = Max(mi.maxRead, mi.i + 2),
                  !.i = mi.i + 3,
                  !.x = mi.x + 1]
  /\ UNCHANGED <<mainVars, rd>>

\* the inner loop ends: y++
MakeImageNextRow ==
  /\ mi.pc = "loop"
  /\ mi.y < mi.h
  /\ mi.x >= mi.w
  /\ mi' = [mi EXCEPT !.y = mi.y + 1, !.x = 0]
  /\ UNCHANGED <<mainVars, rd>>

\* the outer loop ends: return im
MakeImageReturn ==
  /\ mi.pc = "loop"
  /\ mi.y >= mi.h
  /\ mi' = [mi EXCEPT !.pc = "done"]
  /\ UNCHANGED <<mainVars, rd>>

NextImage ==
  \/ MakeImageSet
  \/ MakeImageNextRow
  \/ MakeImageReturn

SpecImage == InitImage /\ [][NextImage]_vars

\* ========================================================================
\* Properties
\* ========================================================================
\* width and height as the file format defines them: little-endian uint16
HdrW(b) == At(b, 1) + 256 * At(b, 2)

HdrH(b) == At(b, 3) + 256 * At(b, 4)

\* buffer length the header of b declares
Declared(b) == 12 * HdrW(b) * HdrH(b) + 4

\* Unpack has been called (main calls it once, on `bytes`)
UnpackCalled == dims # None

\* Unpack has returned an image
UnpackOk == im # None

SameShape(a, b) ==
  a.len = b.len /\ Len(a.pre) = Len(b.pre) /\ Len(a.pat) = Len(b.pat)

\* the pairs <<a[i], b[i]>> of two slices of the same shape
Zip(a, b) ==
  { <<a.pre[i], b.pre[i]>> : i \in 1..Len(a.pre) } \cup
  { <<a.pat[i], b.pat[i]>> : i \in 1..Len(a.pat) }

\* the samples of the payload, before gamma correction
Decoded == convertToFloat(SliceFrom(bytes, headerSize))

\* C1: a buffer of at least 4 bytes whose header declares width and height in
\* [1, 8192] and whose length is exactly 12*width*height + 4 makes Unpack
\* return no error and an image of exactly width x height pixels.
C1_ValidBufferDecodes ==
  (/\ UnpackCalled
   /\ pc \in {"saveImage", "encode", "exit"}
   /\ HdrW(bytes) \in 1..MaxImageDimension
   /\ HdrH(bytes) \in 1..MaxImageDimension
   /\ bytes.len = Declared(bytes))
  => /\ UnpackOk
     /\ im.w = HdrW(bytes)
     /\ im.h = HdrH(bytes)
     /\ im.Pix.len = 4 * HdrW(bytes) * HdrH(bytes)
     /\ err \notin {ErrCorrupt, ErrTooLarge, ErrTooSmall}

C1_Witness ==
  /\ pc = "saveImage"
  /\ HdrW(bytes) = MaxImageDimension
  /\ HdrH(bytes) = MaxImageDimension
  /\ bytes.len = Declared(bytes)
  /\ im.w = MaxImageDimension
  /\ im.h = MaxImageDimension

\* C2 as claimed: whenever the header declares width > 8192 or height > 8192,
\* Unpack fails with "File is too large", whatever the length of the buffer.
C2_TooLargeWhateverLength ==
  (UnpackCalled /\ (HdrW(bytes) > MaxImageDimension \/ HdrH(bytes) > MaxImageDimension))
  => (pc = "exit" /\ err = ErrTooLarge /\ ~UnpackOk)

\* C2 as amended: whenever the header declares width > 8192 or height > 8192,
\* Unpack fails and returns no image; the error is "File is too large" when the
\* buffer length equals 12*width*height + 4 and "File is corrupted" when it
\* does not, because the length is checked first.
C2_TooLargeFails ==
  (UnpackCalled /\ (HdrW(bytes) > MaxImageDimension \/ HdrH(bytes) > MaxImageDimension))
  => /\ pc = "exit"
     /\ exitCode = 1
     /\ ~UnpackOk
     /\ err = IF bytes.len = Declared(bytes) THEN ErrTooLarge ELSE ErrCorrupt

C2_Witness ==
  /\ pc = "exit"
  /\ UnpackCalled
  /\ HdrW(bytes) > MaxImageDimension
  /\ HdrH(bytes) <= MaxImageDimension
  /\ bytes.len = Declared(bytes)
  /\ err = ErrTooLarge

\* C3: a buffer of at least 4 bytes whose length differs from the
\* 12*width*height + 4 its own header declares makes Unpack fail with
\* "File is corrupted": no image is returned and no sample was decoded.
C3_LengthMismatchIsCorrupt ==
  (UnpackCalled /\ bytes.len # Declared(bytes))
  => /\ pc = "exit"
     /\ err = ErrCorrupt
     /\ exitCode = 1
     /\ ~UnpackOk
     /\ floats = None
     /\ imgData = None

C3_Witness ==
  /\ pc = "exit"
  /\ UnpackCalled
  /\ HdrW(bytes) = 2
  /\ HdrH(bytes) = 1
  /\ bytes.len = Declared(bytes) + 12
  /\ err = ErrCorrupt
  /\ floats = None

\* C4 as claimed: whenever Unpack returns an image, the decoded width and
\* height both lie in [1, 8192]; a header declaring width 0 or height 0 never
\* yields an image.
C4_DimensionInvariant ==
  UnpackOk => /\ dims.width \in 1..MaxImageDimension
              /\ dims.height \in 1..MaxImageDimension
              /\ HdrW(bytes) # 0
              /\ HdrH(bytes) # 0

\* C5: a buffer shorter than 4 bytes ends the run with "File is too small",
\* and neither Unpack nor getDimensions ever runs on it.
C5_TooSmallBeforeDimensions ==
  (bytes # None /\ bytes.len < 4)
  => /\ pc \in {"checkLen", "exit"}
     /\ ~UnpackCalled
     /\ floats = None
     /\ ~UnpackOk
     /\ pc = "exit" => (err = ErrTooSmall /\ exitCode = 1)

C5_Witness ==
  /\ pc = "exit"
  /\ bytes # None
  /\ bytes.len = 3
  /\ err = ErrTooSmall
  /\ ~UnpackCalled

\* C6 as claimed: the output file is created only after Unpack has returned an
\* image, and a run that ends in a read failure, a too-small input, a corrupt
\* file, a too-large dimension or an encode failure exits nonzero and leaves
\* no output file behind.
C6_NoPartialOutput ==
  /\ out # Absent => UnpackOk
  /\ (pc = "exit" /\ err \in {ErrIO, ErrTooSmall, ErrCorrupt, ErrTooLarge, ErrEncode})
       => (exitCode # 0 /\ out = Absent)

\* C7: trunc(clamp(f * 255.99, 0, 255)) of a value f that is not NaN
QuantSpec(f) ==
  IF f.k = "inf" THEN (IF f.s = 1 THEN 255 ELSE 0)
  ELSE IF f.k = "num"
       THEN (IF f.n <= 0 THEN 0
             ELSE IF f.n * 25599 >= 255 * 100 * f.d THEN 255
             ELSE (f.n * 25599) \div (100 * f.d))
  ELSE Cardinality({ k \in 1..255 : (100 * k) * (100 * k) * f.d <= 25599 * 25599 * f.n })

\* C7: standardDynamicRange keeps length and order and maps every sample f to
\* the byte trunc(clamp(f * 255.99, 0, 255)), which lies in [0, 255]; 1.0 gives
\* 255, 0.0 gives 0, -0.5 gives 0 and 2.0 gives 255.  (The byte of a NaN sample
\* is whatever byte(NaN) is on the build; it too lies in [0, 255].)
C7_Quantizer ==
  imgData # None
  => /\ SameShape(floats, imgData)
     /\ \A p \in Zip(floats, imgData) :
          /\ p[2] \in 0..255
          /\ p[1].k # "nan" => p[2] = QuantSpec(p[1])
          /\ p[1] = Num(1, 1) => p[2] = 255
          /\ p[1] = Num(0, 1) => p[2] = 0
          /\ p[1] = Num(-1, 2) => p[2] = 0
          /\ p[1] = Num(2, 1) => p[2] = 255

C7_Witness ==
  /\ imgData # None
  /\ imgData.len > Len(imgData.pre)
  /\ <<Num(-1, 2), 0>> \in Zip(floats, imgData)
  /\ <<Num(2, 1), 255>> \in Zip(floats, imgData)
  /\ <<Num(1, 1), 255>> \in Zip(floats, imgData)

\* r is f^(1/g) for gamma g = 2 (a square root) or g = 1/2 (a square), f
\* finite
IsPowOf(r, f, g) ==
  IF g.n = 2 /\ g.d = 1
  THEN IF f.n < 0 THEN r = NaN
       ELSE IF f.n = 0 THEN r = Num(0, 1)
       ELSE IF r.k = "num" THEN r.n > 0 /\ r.n * r.n * f.d = f.n * r.d * r.d
       ELSE r.k = "sqrt" /\ r.cn = 1 /\ r.cd = 1 /\ r.n * f.d = f.n * r.d
  ELSE g.n = 1 /\ g.d = 2 /\ r.k = "num" /\ r.n * f.d * f.d = f.n * f.n * r.d

\* C8: with gamma = 1.0 the samples reach the quantizer unchanged, so the pixel
\* bytes are the quantization of the decoded samples; with any other gamma g
\* every sample f is replaced by f^(1/g) before quantization.
C8_GammaIdentity ==
  (floats # None /\ pc # "gammaCorrect")
  => /\ SameShape(Decoded, floats)
     /\ IsOne(gamma) => floats = Decoded
     /\ ~IsOne(gamma) => \A p \in Zip(Decoded, floats) : IsPowOf(p[2], p[1], gamma)
     /\ (IsOne(gamma) /\ imgData # None)
          => /\ SameShape(Decoded, imgData)
             /\ \A p \in Zip(Decoded, imgData) : p[2] = QuantSpec(p[1])

C8_Witness ==
  /\ pc = "saveImage"
  /\ IsOne(gamma)
  /\ floats = Decoded
  /\ <<Num(1, 2), 127>> \in Zip(Decoded, imgData)
  /\ <<Num(1, 4), 63>> \in Zip(Decoded, imgData)

\* C9: when makeImage returns, every pixel (x, y) holds R, G, B =
\* bytes[3*(y*w+x)], bytes[3*(y*w+x)+1], bytes[3*(y*w+x)+2] and alpha 255, every
\* pixel was set exactly once, and no index at or beyond 3*w*h was read; the
\* image is the one makeImage yields as a value.
C9_ImageAssembly ==
  mi.pc = "done"
  => /\ \A x \in 0..(mi.w - 1), y \in 0..(mi.h - 1) :
          LET p == y * mi.w + x
          IN  /\ mi.Pix[4 * p + 1] = mi.bytes[3 * p + 1]
              /\ mi.Pix[4 * p + 2] = mi.bytes[3 * p + 2]
              /\ mi.Pix[4 * p + 3] = mi.bytes[3 * p + 3]
              /\ mi.Pix[4 * p + 4] = 255
              /\ mi.sets[p + 1] = 1
     /\ mi.maxRead < 3 * mi.w * mi.h
     /\ mi.i = 3 * mi.w * mi.h
     /\ LET m == makeImage([len |-> Len(mi.bytes), pre |-> mi.bytes, pat |-> << >>],
                           mi.w, mi.h)
        IN  m.Pix.pre = mi.Pix /\ m.Stride = mi.Stride

C9_Witness ==
  /\ mi.pc = "done"
  /\ mi.w = 3
  /\ mi.h = 2
  /\ mi.i = 18
  /\ mi.Pix[24] = 255

\* C10 as claimed: getBytes returns exactly the contents of the file, whatever
\* the file's length and whatever chunks the Read calls deliver.
C10_ReadsWholeFile ==
  (rd.pc = "returned" /\ rd.err = ErrNone) => rd.result = rd.content

====
